---- MODULE Spec2Model ----
(***************************************************************************)
(* Position pipeline of the live-market server: the Position table, the   *)
(* strategy-signal handling of MarketConsumer (consumers.py) and the tick  *)
(* callback on_data of the data feed (connection.py).                      *)
(*                                                                         *)
(* Units.  Prices and money are integers in hundredths of a currency unit  *)
(* (on_data divides the feed's integer price by 100; every stored amount   *)
(* is round(x, 2)).  Percentages are kept per mille.  An optional value    *)
(* (Python None / SQL NULL) is the empty tuple <<>>, a present one <<v>>.  *)
(*                                                                         *)
(* Threads.  Every client session owns one MarketConsumer whose receive()  *)
(* handles commands and one feed thread that runs on_data; all sessions    *)
(* share the one Position table.  A thread's atomic steps are its single   *)
(* database statements; local computation is folded into the statement     *)
(* that follows or precedes it.                                            *)
(*                                                                         *)
(* Subscriptions.  subscribed_tokens, token_symbol_map, monitor_symbols,   *)
(* instrument_list and the refresh thread are attributes of one            *)
(* MarketConsumer; consumers share none of them and the position pipeline  *)
(* reads none of them but the symbol names it prints, so they are followed *)
(* for one consumer under a specification of their own (SpecSub).  A       *)
(* Subscribe updates the three structures in three steps, between which    *)
(* the refresh thread runs.  SpecConn adds the client's disconnect and the *)
(* feed socket's close callback.  SpecRules evaluates the two strategy     *)
(* rules by themselves on readings around their thresholds.                *)
(***************************************************************************)
EXTENDS Integers, Sequences, FiniteSets, TLC

\* ---------------------------------------------------------------- bounds
NumSessions == 2
NumTokens == 2
MaxCommands == 2
MaxTicks == 2
NumInstruments == 6
MaxRequests == 3
DISpan == 8
LineSpan == 2

Sessions == 1..NumSessions
Tokens == 1..NumTokens
Handlers == {<<"receive", s>> : s \in Sessions}
Tickers == {<<"on_data", s>> : s \in Sessions}
Threads == Handlers \cup Tickers

\* the latest_close a candle fetch returns for a token (odd tokens trade at
\* 100.00, even ones at 100.10, where target and stoploss need rounding), the
\* last_traded_price of a feed message (absent or 0: the heartbeat / malformed
\* tick; below, at and above the entries), and indicator readings around the
\* thresholds
ClosePrices(tokn) == IF tokn % 2 = 1 THEN {10000} ELSE {10010}
LtpRaw == {<<>>, <<0>>, <<9900>>, <<10010>>}
DIValues == {<<>>, <<15>>, <<25>>}
MacdValues == {<<>>, <<-1>>, <<0>>, <<1>>}

\* the readings the strategy rules are evaluated on by themselves: +DI and -DI
\* absent or within DISpan of the two ADX levels, the MACD line absent or
\* within LineSpan of 0, and the side the token's position was opened on
RuleDI == {<<>>} \cup {<<v>> : v \in (18 - DISpan)..(20 + DISpan)}
RuleLines == {<<>>} \cup {<<v>> : v \in (0 - LineSpan)..LineSpan}
RuleSides == {"NONE", "LONG", "SHORT"}

\* ------------------------------------------------------ program constants
RiskPermille == 10
RewardRatioTenths == 15
Quantity == 50
Lots == 1
FallbackPrice == 106265
MtmThreshold == 5
RefreshCap == 5
TargetTolLowPct == 99
TargetTolHighPct == 101
AdxEntryLevel == 20
AdxExitLevel == 18

VARIABLES
    positions,   \* the Position table: a sequence of rows, primary key = index
    clock,       \* the wall clock behind auto_now_add and timezone.now()
    frame,       \* per thread, the running invocation: where it stands (pc) and
                 \* its locals: symbol_token; price (the handler's price, the
                 \* feed's ltp); open_position (on_data, lines 97-100); position
                 \* (close_position_db, line 632); signals (those
                 \* handle_get_historical has still to apply); exit_calls (the
                 \* close_position_db calls on_data has still to make);
                 \* close_calls, open_calls (the close_position_db and
                 \* open_position_db calls it has made)
    sent,        \* the messages the latest step sent to its client
    commands,    \* get_historical commands received so far
    ticks,       \* ticks delivered by the feeds so far
    received,    \* the input the latest step consumed: a client command
                 \* (receive's text_data) or a feed message (on_data's
                 \* message), <<>> when the step consumed none
    instrument_list,    \* consumer.instrument_list, <<>> while None
    sws,                \* consumer.sws: None while setup_connection has not run
                        \* ("pending") and after it gave up ("none"), else
                        \* the socket: "connected", closed and about to
                        \* reconnect ("reconnecting"), or closed for good
                        \* ("down")
    subscribed_tokens,  \* self.subscribed_tokens: exchangeType -> set of tokens
    token_symbol_map,   \* self.token_symbol_map: token -> tradingsymbol
    monitor_symbols,    \* self.monitor_symbols
    refresh,     \* the refresh_loop thread: pc ("none" until started), the
                 \* slice of the running cycle (selected), the tokens it has
                 \* still to visit (remaining) and has visited (visited), and
                 \* the position in the slice of the cycle's first failed
                 \* refresh (first_failure, 0: none)
    feed,        \* the requests the latest step sent to the upstream feed
    requests,    \* subscribe / unsubscribe commands received so far
    disconnected,  \* the client has disconnected (disconnect() has run)
    stale,       \* the (exchangeType, token) pairs that were subscribed when
                 \* the feed socket last closed and that no feed request has
                 \* named since
    raised,      \* the latest step's call of the feed raised
    subscribing, \* the handle_subscribe in progress: where it stands (pc) and
                 \* its locals tradingsymbols, exchange, tokens and
                 \* new_token_symbol_map
    evaluation   \* one evaluation of the strategy rules: the indicator
                 \* readings (di_plus, di_minus, line), the side the token's
                 \* position was opened on (side, "NONE": no OPEN row), the
                 \* rule applied (rule, "none" before any) and what it returned
                 \* (signals)

posvars == <<positions, clock, frame, commands, ticks>>
subvars == <<instrument_list, sws, subscribed_tokens, token_symbol_map,
             monitor_symbols, refresh, feed, requests, disconnected, stale, raised,
             subscribing>>
rulevars == <<evaluation>>
vars == <<positions, clock, frame, sent, commands, ticks, received,
          instrument_list, sws, subscribed_tokens, token_symbol_map,
          monitor_symbols, refresh, feed, requests, disconnected, stale, raised,
          subscribing, evaluation>>

\* ---------------------------------------------------------------- helpers
Abs(x) == IF x < 0 THEN -x ELSE x

\* round(n/d, 2) of an amount held in hundredths: the nearest integer to n/d,
\* ties to even (Python's round); d > 0
Round2(n, d) ==
    LET q == n \div d
        r == n % d
    IN  IF 2 * r < d THEN q
        ELSE IF 2 * r > d THEN q + 1
        ELSE IF q % 2 = 0 THEN q ELSE q + 1

OpenIds(tokn) ==
    {i \in DOMAIN positions :
        positions[i].token = tokn /\ positions[i].status = "OPEN"}

\* Position.objects.filter(token, status="OPEN").order_by('-entry_datetime').first()
get_open_position_for_token(tokn) ==
    IF OpenIds(tokn) = {} THEN <<>>
    ELSE <<positions[CHOOSE i \in OpenIds(tokn) :
                \A j \in OpenIds(tokn) :
                    positions[j].entry_datetime <= positions[i].entry_datetime]>>

\* Position.objects.filter(token, status="OPEN").first(): an unordered queryset,
\* which .first() orders by primary key
first_open_position(tokn) ==
    IF OpenIds(tokn) = {} THEN <<>>
    ELSE <<positions[CHOOSE i \in OpenIds(tokn) : \A j \in OpenIds(tokn) : i <= j]>>

\* ------------------------------------------------ Strategies/strategies.py
Signal(act, why) == <<[action |-> act, reason |-> why]>>

\* a variant of check_adx_strategy: the three levels are inclusive
check_adx_strategy_inclusive(adx_info, current_side) ==
    IF adx_info.di_plus = <<>> \/ adx_info.di_minus = <<>> THEN <<>>
    ELSE LET di_plus == adx_info.di_plus[1]
             di_minus == adx_info.di_minus[1]
         IN  IF current_side = "NONE"
             THEN IF di_plus >= AdxEntryLevel /\ di_plus > di_minus
                  THEN Signal("BUY", "+DI > 20 (strong uptrend)")
                  ELSE IF di_minus >= AdxEntryLevel /\ di_minus > di_plus
                  THEN Signal("SELL", "-DI > 20 (strong downtrend)")
                  ELSE <<>>
             ELSE IF current_side = "LONG"
             THEN IF di_plus <= AdxExitLevel
                  THEN Signal("EXIT", "+DI < 18 (uptrend weakening)")
                  ELSE <<>>
             ELSE IF current_side = "SHORT"
             THEN IF di_minus <= AdxExitLevel
                  THEN Signal("EXIT", "-DI < 18 (downtrend weakening)")
                  ELSE <<>>
             ELSE <<>>

check_adx_strategy(adx_info, current_side) ==
    IF adx_info.di_plus = <<>> \/ adx_info.di_minus = <<>> THEN <<>>
    ELSE LET di_plus == adx_info.di_plus[1]
             di_minus == adx_info.di_minus[1]
         IN  IF current_side = "NONE"
             THEN IF di_plus > AdxEntryLevel /\ di_plus > di_minus
                  THEN Signal("BUY", "+DI > 20 (strong uptrend)")
                  ELSE IF di_minus > AdxEntryLevel /\ di_minus > di_plus
                  THEN Signal("SELL", "-DI > 20 (strong downtrend)")
                  ELSE <<>>
             ELSE IF current_side = "LONG"
             THEN IF di_plus < AdxExitLevel
                  THEN Signal("EXIT", "+DI < 18 (uptrend weakening)")
                  ELSE <<>>
             ELSE IF current_side = "SHORT"
             THEN IF di_minus < AdxExitLevel
                  THEN Signal("EXIT", "-DI < 18 (downtrend weakening)")
                  ELSE <<>>
             ELSE <<>>

\* a variant of check_macd_strategy: a line at 0 counts as above 0
check_macd_strategy_zero_bullish(macd_info, current_side) ==
    IF macd_info.line = <<>> THEN <<>>
    ELSE LET macd_line == macd_info.line[1]
         IN  IF current_side = "NONE"
             THEN IF macd_line >= 0 THEN Signal("BUY", "MACD line > 0 (bullish)")
                  ELSE IF macd_line < 0 THEN Signal("SELL", "MACD line < 0 (bearish)")
                  ELSE <<>>
             ELSE IF current_side = "LONG"
             THEN IF macd_line < 0
                  THEN Signal("EXIT", "MACD line crossed below 0") ELSE <<>>
             ELSE IF current_side = "SHORT"
             THEN IF macd_line >= 0
                  THEN Signal("EXIT", "MACD line crossed above 0") ELSE <<>>
             ELSE <<>>

check_macd_strategy(macd_info, current_side) ==
    IF macd_info.line = <<>> THEN <<>>
    ELSE LET macd_line == macd_info.line[1]
         IN  IF current_side = "NONE"
             THEN IF macd_line > 0 THEN Signal("BUY", "MACD line > 0 (bullish)")
                  ELSE IF macd_line < 0 THEN Signal("SELL", "MACD line < 0 (bearish)")
                  ELSE <<>>
             ELSE IF current_side = "LONG"
             THEN IF macd_line < 0
                  THEN Signal("EXIT", "MACD line crossed below 0") ELSE <<>>
             ELSE IF current_side = "SHORT"
             THEN IF macd_line > 0
                  THEN Signal("EXIT", "MACD line crossed above 0") ELSE <<>>
             ELSE <<>>

\* handle_get_historical, lines 518-519: the side handed to the strategy rules
CurrentSide(open_pos) == IF open_pos # <<>> THEN "OPEN" ELSE "NONE"

\* handle_get_historical, lines 537-542: the signals to apply, ADX first
SignalsFor(di_plus, di_minus, macd_line, current_side) ==
    check_adx_strategy([di_plus |-> di_plus, di_minus |-> di_minus], current_side)
        \o check_macd_strategy([line |-> macd_line], current_side)

\* ------------------------------------------------------- open_position_db
RewardPermille == (RiskPermille * RewardRatioTenths) \div 10

SideOf(act) == IF act = "BUY" THEN "LONG" ELSE "SHORT"

\* a variant of TargetFor: the two sides' targets exchanged
TargetForSwapped(side, entry_price) ==
    IF side = "LONG"
    THEN Round2(entry_price * (1000 - RewardPermille), 1000)
    ELSE Round2(entry_price * (1000 + RewardPermille), 1000)

TargetFor(side, entry_price) ==
    IF side = "LONG"
    THEN Round2(entry_price * (1000 + RewardPermille), 1000)
    ELSE Round2(entry_price * (1000 - RewardPermille), 1000)

StoplossFor(side, entry_price) ==
    IF side = "LONG"
    THEN Round2(entry_price * (1000 - RiskPermille), 1000)
    ELSE Round2(entry_price * (1000 + RiskPermille), 1000)

\* a variant of NewPosition: the row is inserted with its exit price preset
\* to the entry price
NewPositionExitPreset(id, tokn, side, entry_price, now) ==
    [id             |-> id,
     token          |-> tokn,
     entry_price    |-> entry_price,
     entry_datetime |-> now,
     exit_price     |-> <<entry_price>>,
     exit_datetime  |-> <<>>,
     target         |-> TargetFor(side, entry_price),
     stoploss       |-> StoplossFor(side, entry_price),
     mtm            |-> 0,
     status         |-> "OPEN",
     lots           |-> Lots,
     quantity       |-> Quantity]

\* the row Position.objects.create(...) inserts; Position has no side column
NewPosition(id, tokn, side, entry_price, now) ==
    [id             |-> id,
     token          |-> tokn,
     entry_price    |-> entry_price,
     entry_datetime |-> now,
     exit_price     |-> <<>>,
     exit_datetime  |-> <<>>,
     target         |-> TargetFor(side, entry_price),
     stoploss       |-> StoplossFor(side, entry_price),
     mtm            |-> 0,
     status         |-> "OPEN",
     lots           |-> Lots,
     quantity       |-> Quantity]

\* handle_strategy_signal, line 695
SignalPrice(latest_close) ==
    IF latest_close = <<>> THEN FallbackPrice ELSE latest_close[1]

\* ------------------------------------------------------ close_position_db
\* a variant of ClosePnl: the PNL of a long position whatever the prices
ClosePnlSigned(p, exit_price) == (exit_price - p.entry_price) * p.quantity

\* lines 637-646: the side is guessed from which of entry and exit is larger
ClosePnl(p, exit_price) ==
    IF p.entry_price < exit_price
    THEN (exit_price - p.entry_price) * p.quantity
    ELSE (p.entry_price - exit_price) * p.quantity

\* a variant of ClosedPosition: the stoploss trails to the exit price
ClosedPositionTrailing(p, exit_price, now) ==
    [p EXCEPT !.exit_price = <<exit_price>>,
              !.exit_datetime = <<now>>,
              !.mtm = Round2(ClosePnl(p, exit_price), 1),
              !.stoploss = exit_price,
              !.status = "CLOSED"]

\* lines 648-652: the in-memory object after the assignments; save() writes
\* every column of it over the row with its primary key
ClosedPosition(p, exit_price, now) ==
    [p EXCEPT !.exit_price = <<exit_price>>,
              !.exit_datetime = <<now>>,
              !.mtm = Round2(ClosePnl(p, exit_price), 1),
              !.status = "CLOSED"]

\* ---------------------------------------------------------------- on_data
\* a variant of Dropped: only a message without a price is dropped
DroppedIfAbsent(ltp_raw) == ltp_raw = <<>>

\* lines 80-83: "if not ltp_raw: return"
Dropped(ltp_raw) == ltp_raw = <<>> \/ ltp_raw = <<0>>

\* a variant of PriceUpdate: the price is sent once for the client and once
\* more with the position's update
PriceUpdateTwice(tokn, ltp) ==
    <<[token |-> tokn, ltp |-> ltp], [token |-> tokn, ltp |-> ltp]>>

\* lines 85-93: the price forwarded to the client, ltp_raw / 100 in hundredths
PriceUpdate(tokn, ltp) == <<[token |-> tokn, ltp |-> ltp]>>

\* lines 106-109
TickMtm(p, ltp) ==
    IF ltp >= p.entry_price
    THEN (ltp - p.entry_price) * p.quantity
    ELSE (p.entry_price - ltp) * p.quantity

\* line 111
MtmChanged(p, ltp) == Abs(TickMtm(p, ltp) - p.mtm) > MtmThreshold

\* a variant of SaveMtm: save() without update_fields writes every column of
\* the in-memory object
SaveAllColumns(row, obj) == obj

\* lines 112-113: save(update_fields=['mtm']) writes the mtm column alone
SaveMtm(row, obj) == [row EXCEPT !.mtm = obj.mtm]

\* lines 133-137
TargetHit(p, ltp) ==
    \/ 100 * ltp >= p.target * TargetTolLowPct /\ ltp >= p.entry_price
    \/ 100 * ltp <= p.target * TargetTolHighPct /\ ltp <= p.entry_price

\* lines 140-144
StoplossHit(p, ltp) ==
    \/ ltp <= p.stoploss /\ ltp <= p.entry_price
    \/ ltp >= p.stoploss /\ ltp >= p.entry_price

\* lines 129-144: exit_reason and should_exit after both checks; the later
\* assignment wins (<<>>: should_exit is False)
ExitReason(p, ltp) ==
    IF StoplossHit(p, ltp) THEN <<"Stoploss hit">>
    ELSE IF TargetHit(p, ltp) THEN <<"Target reached (test)">>
    ELSE <<>>

\* a variant of ExitCalls: close_position_db called inside each check
ExitCallsPerCondition(p, ltp) ==
    (IF TargetHit(p, ltp) THEN <<"Target reached (test)">> ELSE <<>>)
        \o (IF StoplossHit(p, ltp) THEN <<"Stoploss hit">> ELSE <<>>)

\* lines 146-151: the close_position_db calls one tick makes
ExitCalls(p, ltp) == ExitReason(p, ltp)

\* ---------------------------------------------------------- subscriptions
Range(seq) == {seq[i] : i \in DOMAIN seq}

Min(a, b) == IF a < b THEN a ELSE b

\* dict[k] = v, dict.update(other) and the removal of keys
MapPut(m, k, v) == [x \in DOMAIN m \cup {k} |-> IF x = k THEN v ELSE m[x]]

MapUpdate(m, other) ==
    [x \in DOMAIN m \cup DOMAIN other |-> IF x \in DOMAIN other THEN other[x] ELSE m[x]]

MapRemove(m, keys) ==
    IF DOMAIN m \subseteq keys THEN <<>> ELSE [x \in DOMAIN m \ keys |-> m[x]]

\* EXCHANGE_MAP.get(exchange, 1)
exchange_type(exchange) ==
    CASE exchange = "NSE" -> 1
      [] exchange = "NFO" -> 2
      [] exchange = "BSE" -> 3
      [] exchange = "BFO" -> 4
      [] exchange = "MCX" -> 5
      [] exchange = "NCO" -> 5
      [] exchange = "NCDEX" -> 7
      [] exchange = "CDS" -> 13
      [] OTHER -> 1

\* the instrument master the feed provider publishes: tradingsymbols are
\* numbered; tokens are unique within an exchange segment only, and the one
\* CDS instrument carries the token of the first NSE instrument
InstrumentList ==
    [i \in 1..NumInstruments |-> [symbol |-> i, exch_seg |-> "NSE", token |-> i]]
        \o <<[symbol |-> NumInstruments + 1, exch_seg |-> "CDS", token |-> 1]>>

\* the commands of a client: symbol 0 is in no segment
Exchanges == {"NSE", "CDS"}
Window(a, b) == [i \in 1..(b - a + 1) |-> a + i - 1]
SymbolLists ==
    {<<ts>> : ts \in 0..(NumInstruments + 1)}
        \cup {<<ts, ts>> : ts \in 1..NumInstruments}
        \cup {Window(1, 3), Window(4, NumInstruments)}

\* the inner loop of handle_subscribe / handle_unsubscribe: the first
\* instrument with this symbol in this segment
FindInstrument(ts, exchange) ==
    LET hits == {i \in DOMAIN instrument_list :
                    /\ instrument_list[i].symbol = ts
                    /\ instrument_list[i].exch_seg = exchange}
    IN  IF hits = {} THEN <<>>
        ELSE <<instrument_list[CHOOSE i \in hits : \A j \in hits : i <= j]>>

IsSubscribed(exch_type, token) ==
    exch_type \in DOMAIN subscribed_tokens /\ token \in subscribed_tokens[exch_type]

\* handle_subscribe, lines 197-216: tokens, new_token_symbol_map and the
\* warnings sent on the way
RECURSIVE SubscribeScan(_, _, _)
SubscribeScan(tradingsymbols, exchange, acc) ==
    IF tradingsymbols = <<>> THEN acc
    ELSE LET ts == Head(tradingsymbols)
             found == FindInstrument(ts, exchange)
         IN  SubscribeScan(Tail(tradingsymbols), exchange,
                IF found = <<>>
                THEN [acc EXCEPT !.warnings =
                        Append(@, [warning |-> "Symbol not found", tradingsymbol |-> ts])]
                ELSE [acc EXCEPT
                        !.tokens = IF IsSubscribed(exchange_type(exchange), found[1].token)
                                   THEN @ ELSE Append(@, found[1].token),
                        !.new_token_symbol_map = MapPut(@, found[1].token, ts)])

\* handle_unsubscribe, lines 275-281
RECURSIVE UnsubscribeScan(_, _)
UnsubscribeScan(tradingsymbols, exchange) ==
    IF tradingsymbols = <<>> THEN <<>>
    ELSE LET found == FindInstrument(Head(tradingsymbols), exchange)
         IN  (IF found # <<>> /\ IsSubscribed(exchange_type(exchange), found[1].token)
              THEN <<found[1].token>> ELSE <<>>)
                 \o UnsubscribeScan(Tail(tradingsymbols), exchange)

\* handle_subscribe, lines 231-233
AfterSubscribe(subs, exch_type, tokens) ==
    MapPut(subs, exch_type,
           (IF exch_type \in DOMAIN subs THEN subs[exch_type] ELSE {}) \cup Range(tokens))

\* a variant of AfterUnsubscribe: the segment key stays when its set empties
AfterUnsubscribeKeepKey(subs, exch_type, tokens) ==
    MapPut(subs, exch_type, subs[exch_type] \ Range(tokens))

\* handle_unsubscribe, lines 287-289
AfterUnsubscribe(subs, exch_type, tokens) ==
    IF subs[exch_type] \subseteq Range(tokens)
    THEN MapRemove(subs, {exch_type})
    ELSE MapPut(subs, exch_type, subs[exch_type] \ Range(tokens))

\* a variant of AppendNew: every token is appended
RECURSIVE AppendAll(_, _)
AppendAll(monitor, tokens) ==
    IF tokens = <<>> THEN monitor
    ELSE AppendAll(Append(monitor, Head(tokens)), Tail(tokens))

\* handle_subscribe, lines 241-245
RECURSIVE AppendNew(_, _)
AppendNew(monitor, tokens) ==
    IF tokens = <<>> THEN monitor
    ELSE AppendNew(IF Head(tokens) \in Range(monitor) THEN monitor
                   ELSE Append(monitor, Head(tokens)),
                   Tail(tokens))

\* the (exchangeType, token) pairs of self.subscribed_tokens
SubscribedPairs ==
    UNION {{<<exch_type, token>> : token \in subscribed_tokens[exch_type]} :
              exch_type \in DOMAIN subscribed_tokens}

\* no handle_subscribe is in progress
NotSubscribing ==
    [pc |-> "idle", tradingsymbols |-> <<>>, exchange |-> "", tokens |-> <<>>,
     new_token_symbol_map |-> <<>>]

\* a variant of AfterRaise: the bookkeeping is done before the feed is called
AfterRaiseUpdated(before, after) == after

\* handle_subscribe, lines 222-233, and handle_unsubscribe, lines 285-287:
\* the feed is called before the subscription set is touched, so a call that
\* raises leaves the set as it was before, not as the update would make it
AfterRaise(before, after) == before

\* the indicator readings send_current_indicators computes from the candles
\* it fetched, lines 155-157: none usable, or an uptrend (+DI above 20 and
\* above -DI, MACD line above 0)
NoReadings == [di_plus |-> <<>>, di_minus |-> <<>>, line |-> <<>>]
RefreshReadings == {NoReadings, [di_plus |-> <<25>>, di_minus |-> <<15>>, line |-> <<1>>]}

\* ------------------------------------------------------------ refresh_loop
NotStarted ==
    [pc |-> "none", selected |-> <<>>, remaining |-> <<>>, visited |-> <<>>,
     first_failure |-> 0]

\* line 113: the slice one cycle visits
CycleSlice(monitor) == SubSeq(monitor, 1, Min(RefreshCap, Len(monitor)))

\* a variant of AfterRefresh: a failed refresh ends the cycle
AfterRefreshAbort(rest, outcome) == IF outcome = "sent" THEN rest ELSE <<>>

\* lines 113-117: the for loop goes on whatever send_current_indicators did
AfterRefresh(rest, outcome) == rest

\* ------------------------------------------------------------- the system
\* self.send / consumer.send: the step's messages go out to the client
Emit(msgs) == msgs

\* a thread between invocations: no locals are live (token 0 is no token)
Idle ==
    [pc |-> "idle", symbol_token |-> 0, price |-> 0, open_position |-> <<>>,
     position |-> <<>>, signals |-> <<>>, exit_calls |-> <<>>, close_calls |-> 0,
     open_calls |-> 0]

\* no rule has been evaluated
NoEvaluation ==
    [di_plus |-> <<>>, di_minus |-> <<>>, line |-> <<>>, side |-> "NONE",
     rule |-> "none", signals |-> <<>>]

\* the readings and the side one evaluation of the rules starts from
RuleInputs ==
    {[di_plus |-> di_plus, di_minus |-> di_minus, line |-> line, side |-> side,
      rule |-> "none", signals |-> <<>>] :
        di_plus \in RuleDI, di_minus \in RuleDI, line \in RuleLines,
        side \in RuleSides}

\* the server after start-up and the consumers after connect(), lines 39-54
Constructed ==
    /\ positions = <<>>
    /\ clock = 0
    /\ frame = [t \in Threads |-> Idle]
    /\ sent = <<>>
    /\ commands = 0
    /\ ticks = 0
    /\ received = <<>>
    /\ instrument_list = <<>>
    /\ sws = "pending"
    /\ subscribed_tokens = <<>>
    /\ token_symbol_map = <<>>
    /\ monitor_symbols = <<>>
    /\ refresh = NotStarted
    /\ feed = <<>>
    /\ requests = 0
    /\ disconnected = FALSE
    /\ stale = {}
    /\ raised = FALSE
    /\ subscribing = NotSubscribing

Init == Constructed /\ evaluation = NoEvaluation

\* one evaluation of the rules on readings drawn from the input sets
InitRules == Constructed /\ evaluation \in RuleInputs

\* handle_get_historical, line 545: the response sent once every signal is applied
HistoricalResponse(tokn) ==
    [status |-> "historical_data_with_indicators", token |-> tokn]

\* handle_get_historical, lines 542-545: go on to the next signal, or respond
\* and return
NextSignal(h, msgs) ==
    LET rest == Tail(frame[h].signals)
    IN  IF rest = <<>>
        THEN /\ frame' = [frame EXCEPT ![h] = Idle]
             /\ sent' = Emit(msgs \o <<HistoricalResponse(frame[h].symbol_token)>>)
        ELSE /\ frame' = [frame EXCEPT ![h].pc = "signal", ![h].signals = rest]
             /\ sent' = Emit(msgs)

\* handle_get_historical up to line 542: fetch candles, read the open position,
\* run both strategy rules
handle_get_historical(h) ==
    /\ frame[h].pc = "idle"
    /\ commands < MaxCommands
    /\ commands' = commands + 1
    /\ \E tokn \in Tokens, candles_ok \in BOOLEAN, di_plus \in DIValues,
          di_minus \in DIValues, macd_line \in MacdValues :
       \E latest_close \in ClosePrices(tokn) :
         LET open_pos == get_open_position_for_token(tokn)
             sigs == SignalsFor(di_plus, di_minus, macd_line, CurrentSide(open_pos))
         IN  /\ received' = <<[action |-> "get_historical", symboltoken |-> tokn]>>
             /\ IF ~candles_ok
                THEN /\ sent' = Emit(<<[status |-> "error", token |-> tokn]>>)
                     /\ UNCHANGED frame
                ELSE IF sigs = <<>>
                THEN /\ sent' = Emit(<<HistoricalResponse(tokn)>>)
                     /\ UNCHANGED frame
                ELSE /\ sent' = Emit(<<>>)
                     /\ frame' = [frame EXCEPT ![h] =
                           [Idle EXCEPT !.pc = "signal", !.symbol_token = tokn,
                                        !.price = SignalPrice(<<latest_close>>),
                                        !.signals = sigs]]
    /\ UNCHANGED <<positions, clock, ticks>>
    /\ UNCHANGED subvars
    /\ UNCHANGED rulevars

\* handle_strategy_signal, lines 680-697 and 724: read the open position and
\* pick the branch
handle_strategy_signal(h) ==
    /\ frame[h].pc = "signal"
    /\ LET signal == Head(frame[h].signals)
           open_pos == get_open_position_for_token(frame[h].symbol_token)
       IN  IF signal.action \in {"BUY", "SELL"} /\ open_pos = <<>>
           THEN /\ frame' = [frame EXCEPT ![h].pc = "open",
                                          ![h].open_calls = @ + 1]
                /\ sent' = Emit(<<>>)
           ELSE IF signal.action = "EXIT" /\ open_pos # <<>>
           THEN /\ frame' = [frame EXCEPT ![h].pc = "close_read",
                                          ![h].close_calls = @ + 1]
                /\ sent' = Emit(<<>>)
           ELSE NextSignal(h, <<>>)
    /\ UNCHANGED <<positions, clock, commands, ticks>>
    /\ received' = <<>>
    /\ UNCHANGED subvars
    /\ UNCHANGED rulevars

\* open_position_db, lines 571-624, and handle_strategy_signal, lines 698-722
open_position_db(h) ==
    /\ frame[h].pc = "open"
    /\ LET signal == Head(frame[h].signals)
           side == SideOf(signal.action)
           row == NewPosition(Len(positions) + 1, frame[h].symbol_token, side,
                              frame[h].price, clock + 1)
           opened == [status |-> "position_opened", token |-> row.token,
                      side |-> side, entry_price |-> row.entry_price,
                      target |-> TargetFor(side, row.entry_price),
                      stoploss |-> StoplossFor(side, row.entry_price)]
           confirmed == [status |-> "position_opened", token |-> row.token,
                         side |-> side, entry_price |-> row.entry_price,
                         signal |-> signal.action]
       IN  /\ positions' = Append(positions, row)
           /\ clock' = clock + 1
           /\ NextSignal(h, <<opened, confirmed>>)
    /\ UNCHANGED <<commands, ticks>>
    /\ received' = <<>>
    /\ UNCHANGED subvars
    /\ UNCHANGED rulevars

\* what follows close_position_db in its caller: handle_strategy_signal,
\* lines 726-735 (closed: the row it closed, <<>> when it returned None), or
\* on_data, lines 152-162
CloseReturn(t, closed, msgs) ==
    IF t \in Handlers
    THEN NextSignal(t, msgs \o
            (IF closed = <<>> THEN <<>>
             ELSE <<[status |-> "position_closed", token |-> frame[t].symbol_token,
                     exit_price |-> frame[t].price, pnl |-> closed[1].mtm,
                     signal |-> Head(frame[t].signals).action]>>))
    ELSE LET rest == Tail(frame[t].exit_calls)
         IN  IF rest # <<>>
             THEN /\ frame' = [frame EXCEPT ![t].pc = "close_read",
                                            ![t].exit_calls = rest,
                                            ![t].close_calls = @ + 1]
                  /\ sent' = Emit(msgs)
             ELSE /\ frame' = [frame EXCEPT ![t] = Idle]
                  /\ sent' = Emit(msgs \o
                         <<[status |-> "auto_exit", token |-> frame[t].symbol_token,
                            exit_price |-> frame[t].price,
                            exit_reason |-> Head(frame[t].exit_calls),
                            mtm |-> frame[t].open_position[1].mtm]>>)

\* close_position_db, lines 630-635: read the open position, return None if none
close_position_db_read(t) ==
    /\ frame[t].pc = "close_read"
    /\ LET found == get_open_position_for_token(frame[t].symbol_token)
       IN  IF found = <<>>
           THEN CloseReturn(t, <<>>, <<>>)
           ELSE /\ frame' = [frame EXCEPT ![t].pc = "close_save",
                                          ![t].position = found]
                /\ sent' = Emit(<<>>)
    /\ UNCHANGED <<positions, clock, commands, ticks>>
    /\ received' = <<>>
    /\ UNCHANGED subvars
    /\ UNCHANGED rulevars

\* close_position_db, lines 637-675: compute the PNL, save the row, notify
close_position_db_save(t) ==
    /\ frame[t].pc = "close_save"
    /\ LET closed == ClosedPosition(frame[t].position[1], frame[t].price, clock + 1)
       IN  /\ positions' = [positions EXCEPT ![closed.id] = closed]
           /\ clock' = clock + 1
           /\ CloseReturn(t, <<closed>>,
                  <<[status |-> "position_closed", token |-> frame[t].symbol_token,
                     exit_price |-> frame[t].price, pnl |-> closed.mtm]>>)
    /\ UNCHANGED <<commands, ticks>>
    /\ received' = <<>>
    /\ UNCHANGED subvars
    /\ UNCHANGED rulevars

\* on_data, lines 78-102: drop a tick without a price, forward the price, read
\* the token's open position
on_data(k) ==
    /\ frame[k].pc = "idle"
    /\ ticks < MaxTicks
    /\ ticks' = ticks + 1
    /\ \E tokn \in Tokens, ltp_raw \in LtpRaw :
       /\ received' = <<[token |-> tokn, last_traded_price |-> ltp_raw]>>
       /\ IF Dropped(ltp_raw)
          THEN /\ sent' = Emit(<<>>)
               /\ UNCHANGED frame
          ELSE LET found == first_open_position(tokn)
               IN  /\ sent' = Emit(PriceUpdate(tokn, ltp_raw[1]))
                   /\ IF found = <<>>
                      THEN UNCHANGED frame
                      ELSE frame' = [frame EXCEPT ![k] =
                             [Idle EXCEPT !.pc = "mtm", !.symbol_token = tokn,
                                          !.price = ltp_raw[1],
                                          !.open_position = found]]
    /\ UNCHANGED <<positions, clock, commands>>
    /\ UNCHANGED subvars
    /\ UNCHANGED rulevars

\* on_data, lines 103-146: recompute the MTM, save it when it moved by more
\* than the threshold, then check target and stoploss
on_data_mtm(k) ==
    /\ frame[k].pc = "mtm"
    /\ LET p == frame[k].open_position[1]
           ltp == frame[k].price
           changed == MtmChanged(p, ltp)
           obj == IF changed THEN [p EXCEPT !.mtm = Round2(TickMtm(p, ltp), 1)] ELSE p
           calls == ExitCalls(p, ltp)
       IN  /\ positions' = IF changed
                           THEN [positions EXCEPT ![p.id] = SaveMtm(@, obj)]
                           ELSE positions
           /\ sent' = Emit(IF changed
                      THEN <<[status |-> "mtm_update", token |-> frame[k].symbol_token,
                              ltp |-> ltp, mtm |-> obj.mtm]>>
                      ELSE <<>>)
           /\ frame' = IF calls = <<>>
                       THEN [frame EXCEPT ![k] = Idle]
                       ELSE [frame EXCEPT ![k].pc = "close_read",
                                          ![k].open_position = <<obj>>,
                                          ![k].exit_calls = calls,
                                          ![k].close_calls = @ + 1]
    /\ UNCHANGED <<clock, commands, ticks>>
    /\ received' = <<>>
    /\ UNCHANGED subvars
    /\ UNCHANGED rulevars

\* ------------------------------------------- one consumer's subscriptions
\* setup_connection, lines 22-69: log in, fetch the instrument list, create
\* the feed socket; it runs on a thread of its own (consumers.py, lines
\* 54-57), whether or not the client is still there
setup_connection ==
    /\ sws = "pending"
    /\ \E login_ok \in BOOLEAN, list_ok \in BOOLEAN :
         IF ~login_ok
         THEN /\ sent' = Emit(<<[error |-> "Login failed", login_status |-> "FAILED"]>>)
              /\ sws' = "none"
              /\ UNCHANGED instrument_list
         ELSE /\ instrument_list' = IF list_ok THEN InstrumentList ELSE <<>>
              /\ sws' = "connected"
              /\ sent' = Emit(<<[status |-> "Login Successful"]>>
                     \o (IF list_ok THEN <<>>
                         ELSE <<[error |-> "Instrument list download failed"]>>))
    /\ received' = <<>>
    /\ feed' = <<>>
    /\ raised' = FALSE
    /\ UNCHANGED <<subscribed_tokens, token_symbol_map, monitor_symbols, refresh,
                   requests, disconnected, stale, subscribing>>
    /\ UNCHANGED posvars
    /\ UNCHANGED rulevars

\* handle_subscribe, lines 185-233: resolve the symbols, ask the feed, add
\* the tokens to the subscription set
handle_subscribe ==
    /\ ~disconnected
    /\ subscribing.pc = "idle"
    /\ requests < MaxRequests
    /\ requests' = requests + 1
    /\ \E tradingsymbols \in SymbolLists, exchange \in Exchanges, feed_ok \in BOOLEAN :
         LET scan == SubscribeScan(tradingsymbols, exchange,
                        [tokens |-> <<>>, new_token_symbol_map |-> <<>>,
                         warnings |-> <<>>])
             tokens == scan.tokens
             after == AfterSubscribe(subscribed_tokens, exchange_type(exchange), tokens)
         IN  /\ received' = <<[action |-> "subscribe",
                               tradingsymbols |-> tradingsymbols,
                               exchange |-> exchange]>>
             /\ IF instrument_list = <<>>
                THEN /\ sent' = Emit(<<[error |-> "Instrument list not loaded"]>>)
                     /\ feed' = <<>>
                     /\ raised' = FALSE
                     /\ UNCHANGED <<subscribed_tokens, subscribing, stale>>
                ELSE IF tokens = <<>>
                THEN /\ sent' = Emit(scan.warnings
                            \o <<[status |-> "no_new_subscriptions"]>>)
                     /\ feed' = <<>>
                     /\ raised' = FALSE
                     /\ UNCHANGED <<subscribed_tokens, subscribing, stale>>
                ELSE IF ~feed_ok \/ sws # "connected"
                THEN /\ sent' = Emit(scan.warnings \o <<[error |-> "Subscribe failed"]>>)
                     /\ feed' = <<>>
                     /\ raised' = TRUE
                     /\ subscribed_tokens' = AfterRaise(subscribed_tokens, after)
                     /\ UNCHANGED <<subscribing, stale>>
                ELSE /\ feed' = <<[op |-> "subscribe",
                                   exchangeType |-> exchange_type(exchange),
                                   tokens |-> tokens]>>
                     /\ raised' = FALSE
                     /\ subscribed_tokens' = after
                     /\ stale' = stale \ {<<exchange_type(exchange), tokens[i]>> :
                                              i \in DOMAIN tokens}
                     /\ subscribing' =
                            [pc |-> "map", tradingsymbols |-> tradingsymbols,
                             exchange |-> exchange, tokens |-> tokens,
                             new_token_symbol_map |-> scan.new_token_symbol_map]
                     /\ sent' = Emit(scan.warnings)
    /\ UNCHANGED <<instrument_list, sws, token_symbol_map, monitor_symbols, refresh,
                   disconnected>>
    /\ UNCHANGED posvars
    /\ UNCHANGED rulevars

\* handle_subscribe, line 236: add the new symbols to the token/symbol map
handle_subscribe_map ==
    /\ subscribing.pc = "map"
    /\ token_symbol_map' =
           MapUpdate(token_symbol_map, subscribing.new_token_symbol_map)
    /\ subscribing' = [subscribing EXCEPT !.pc = "monitor"]
    /\ sent' = Emit(<<>>)
    /\ received' = <<>>
    /\ feed' = <<>>
    /\ raised' = FALSE
    /\ UNCHANGED <<instrument_list, sws, subscribed_tokens, monitor_symbols, refresh,
                   requests, disconnected, stale>>
    /\ UNCHANGED posvars
    /\ UNCHANGED rulevars

\* handle_subscribe, lines 241-260, with start_indicator_monitor, lines
\* 103-122: append the tokens to the monitor list, start the refresh thread,
\* confirm to the client
handle_subscribe_monitor ==
    /\ subscribing.pc = "monitor"
    /\ LET monitor == AppendNew(monitor_symbols, subscribing.tokens)
       IN  /\ monitor_symbols' = monitor
           /\ refresh' = IF Len(monitor) > Len(monitor_symbols)
                            /\ refresh.pc = "none"
                         THEN [NotStarted EXCEPT !.pc = "wait"]
                         ELSE refresh
           /\ sent' = Emit(<<[status |-> "subscribed",
                              tradingsymbols |-> subscribing.tradingsymbols,
                              tokens |-> subscribing.tokens,
                              exchange |-> subscribing.exchange,
                              monitored_count |-> Len(monitor)]>>)
    /\ subscribing' = NotSubscribing
    /\ received' = <<>>
    /\ feed' = <<>>
    /\ raised' = FALSE
    /\ UNCHANGED <<instrument_list, sws, subscribed_tokens, token_symbol_map,
                   requests, disconnected, stale>>
    /\ UNCHANGED posvars
    /\ UNCHANGED rulevars

\* handle_unsubscribe, lines 268-295; an exception of the feed call is caught
\* in receive, lines 100-101
handle_unsubscribe ==
    /\ ~disconnected
    /\ subscribing.pc = "idle"
    /\ requests < MaxRequests
    /\ requests' = requests + 1
    /\ \E tradingsymbols \in SymbolLists, exchange \in Exchanges, feed_ok \in BOOLEAN :
         LET tokens == UnsubscribeScan(tradingsymbols, exchange)
             after == AfterUnsubscribe(subscribed_tokens, exchange_type(exchange), tokens)
         IN  /\ received' = <<[action |-> "unsubscribe",
                               tradingsymbols |-> tradingsymbols,
                               exchange |-> exchange]>>
             /\ IF instrument_list = <<>>
                THEN /\ sent' = Emit(<<[error |-> "Instrument list not loaded"]>>)
                     /\ feed' = <<>>
                     /\ raised' = FALSE
                     /\ UNCHANGED <<subscribed_tokens, token_symbol_map, stale>>
                ELSE IF tokens = <<>>
                THEN /\ sent' = Emit(<<>>)
                     /\ feed' = <<>>
                     /\ raised' = FALSE
                     /\ UNCHANGED <<subscribed_tokens, token_symbol_map, stale>>
                ELSE IF ~feed_ok \/ sws # "connected"
                THEN /\ sent' = Emit(<<[error |-> "unsubscribe raised"]>>)
                     /\ feed' = <<>>
                     /\ raised' = TRUE
                     /\ subscribed_tokens' = AfterRaise(subscribed_tokens, after)
                     /\ UNCHANGED <<token_symbol_map, stale>>
                ELSE /\ feed' = <<[op |-> "unsubscribe",
                                   exchangeType |-> exchange_type(exchange),
                                   tokens |-> tokens]>>
                     /\ raised' = FALSE
                     /\ subscribed_tokens' = after
                     /\ token_symbol_map' = MapRemove(token_symbol_map, Range(tokens))
                     /\ stale' = stale \ {<<exchange_type(exchange), tokens[i]>> :
                                              i \in DOMAIN tokens}
                     /\ sent' = Emit(<<[status |-> "unsubscribed",
                                        tradingsymbols |-> tradingsymbols]>>)
    /\ UNCHANGED <<instrument_list, sws, monitor_symbols, refresh, disconnected,
                   subscribing>>
    /\ UNCHANGED posvars
    /\ UNCHANGED rulevars

\* refresh_loop, lines 108-113: the top of the while loop after a sleep; an
\* empty list sends the thread back to sleep
refresh_loop ==
    /\ refresh.pc = "wait"
    /\ refresh' = IF monitor_symbols = <<>> THEN refresh
                  ELSE [pc |-> "visit", selected |-> CycleSlice(monitor_symbols),
                        remaining |-> CycleSlice(monitor_symbols),
                        visited |-> <<>>, first_failure |-> 0]
    /\ sent' = Emit(<<>>)
    /\ received' = <<>>
    /\ feed' = <<>>
    /\ raised' = FALSE
    /\ UNCHANGED <<instrument_list, sws, subscribed_tokens, token_symbol_map,
                   monitor_symbols, requests, disconnected, stale, subscribing>>
    /\ UNCHANGED posvars
    /\ UNCHANGED rulevars

\* refresh_loop, lines 113-118, around send_current_indicators, lines 125-183:
\* the refresh of one token of the slice; it sends the indicators it computed
\* ("sent"), returns early on a failed or short fetch ("no_data") or raises
\* ("raised")
send_current_indicators ==
    /\ refresh.pc = "visit"
    /\ \E outcome \in {"sent", "no_data", "raised"}, readings \in RefreshReadings :
         LET symbol_token == Head(refresh.remaining)
             rest == AfterRefresh(Tail(refresh.remaining), outcome)
         IN  /\ outcome # "sent" => readings = NoReadings
             /\ sent' = Emit(IF outcome = "sent"
                        THEN <<[status |-> "live_indicators_update",
                                symboltoken |-> symbol_token,
                                macd |-> [line |-> readings.line],
                                adx |-> [di_plus |-> readings.di_plus,
                                         di_minus |-> readings.di_minus]]>>
                        ELSE <<>>)
             /\ refresh' = [refresh EXCEPT
                    !.pc = IF rest = <<>> THEN "wait" ELSE "visit",
                    !.remaining = rest,
                    !.visited = Append(@, symbol_token),
                    !.first_failure = IF outcome # "sent" /\ @ = 0
                                      THEN Len(refresh.visited) + 1 ELSE @]
    /\ received' = <<>>
    /\ feed' = <<>>
    /\ raised' = FALSE
    /\ UNCHANGED <<instrument_list, sws, subscribed_tokens, token_symbol_map,
                   monitor_symbols, requests, disconnected, stale, subscribing>>
    /\ UNCHANGED posvars
    /\ UNCHANGED rulevars

\* disconnect, lines 737-742: the client went away; the feed socket, if there
\* is one, is told to close.  Whether the socket's close callback then runs
\* on to its reconnect is decided outside this code.
disconnect ==
    /\ ~disconnected
    /\ subscribing.pc = "idle"
    /\ disconnected' = TRUE
    /\ IF sws = "connected"
       THEN /\ \E callback \in BOOLEAN :
                 sws' = IF callback THEN "reconnecting" ELSE "down"
            /\ stale' = SubscribedPairs
       ELSE UNCHANGED <<sws, stale>>
    /\ sent' = Emit(<<>>)
    /\ received' = <<>>
    /\ feed' = <<>>
    /\ raised' = FALSE
    /\ UNCHANGED <<instrument_list, subscribed_tokens, token_symbol_map,
                   monitor_symbols, refresh, requests, subscribing>>
    /\ UNCHANGED posvars
    /\ UNCHANGED rulevars

\* on_close, connection.py lines 171-176: the feed socket closed; tell the
\* client and sleep before the reconnect
on_close ==
    /\ sws = "connected"
    /\ sws' = "reconnecting"
    /\ stale' = SubscribedPairs
    /\ sent' = Emit(<<[status |-> "Datafeed Disconnected - Reconnecting..."]>>)
    /\ received' = <<>>
    /\ feed' = <<>>
    /\ raised' = FALSE
    /\ UNCHANGED <<instrument_list, subscribed_tokens, token_symbol_map,
                   monitor_symbols, refresh, requests, disconnected, subscribing>>
    /\ UNCHANGED posvars
    /\ UNCHANGED rulevars

\* on_close, connection.py lines 177-182: consumer.sws.connect()
on_close_reconnect ==
    /\ sws = "reconnecting"
    /\ \E connect_ok \in BOOLEAN :
         IF connect_ok
         THEN /\ sws' = "connected"
              /\ sent' = Emit(<<>>)
         ELSE /\ sws' = "down"
              /\ sent' = Emit(<<[error |-> "Reconnect failed"]>>)
    /\ received' = <<>>
    /\ feed' = <<>>
    /\ raised' = FALSE
    /\ UNCHANGED <<instrument_list, subscribed_tokens, token_symbol_map,
                   monitor_symbols, refresh, requests, disconnected, stale, subscribing>>
    /\ UNCHANGED posvars
    /\ UNCHANGED rulevars

\* check_adx_strategy, strategies.py lines 3-48, applied to the readings
adx_rule ==
    /\ evaluation.rule = "none"
    /\ evaluation' = [evaluation EXCEPT
            !.rule = "adx",
            !.signals = check_adx_strategy(
                [di_plus |-> evaluation.di_plus, di_minus |-> evaluation.di_minus],
                evaluation.side)]
    /\ UNCHANGED <<posvars, subvars, sent, received>>

\* check_macd_strategy, strategies.py lines 50-78, applied to the readings
macd_rule ==
    /\ evaluation.rule = "none"
    /\ evaluation' = [evaluation EXCEPT
            !.rule = "macd",
            !.signals = check_macd_strategy([line |-> evaluation.line],
                                            evaluation.side)]
    /\ UNCHANGED <<posvars, subvars, sent, received>>

\* handle_get_historical, lines 517-542: the token's OPEN row, if any, is
\* read (a row opened by BUY when the side is LONG, by SELL when SHORT), the
\* side handed to the rules is derived from it and both rules are evaluated
evaluate_strategies ==
    /\ evaluation.rule = "none"
    /\ LET open_pos == IF evaluation.side = "NONE" THEN <<>>
                        ELSE <<NewPosition(1, 1, evaluation.side, 10000, 1)>>
       IN  evaluation' = [evaluation EXCEPT
                !.rule = "both",
                !.signals = SignalsFor(evaluation.di_plus, evaluation.di_minus,
                                       evaluation.line, CurrentSide(open_pos))]
    /\ UNCHANGED <<posvars, subvars, sent, received>>

Next ==
    \/ \E h \in Handlers : handle_get_historical(h)
    \/ \E h \in Handlers : handle_strategy_signal(h)
    \/ \E h \in Handlers : open_position_db(h)
    \/ \E t \in Threads : close_position_db_read(t)
    \/ \E t \in Threads : close_position_db_save(t)
    \/ \E k \in Tickers : on_data(k)
    \/ \E k \in Tickers : on_data_mtm(k)

Spec == Init /\ [][Next]_vars

NextSub ==
    \/ setup_connection
    \/ handle_subscribe
    \/ handle_subscribe_map
    \/ handle_subscribe_monitor
    \/ handle_unsubscribe
    \/ refresh_loop
    \/ send_current_indicators

\* the refresh thread is a daemon thread that runs as long as the process does
SpecSub ==
    Init /\ [][NextSub]_vars /\ WF_vars(refresh_loop) /\ WF_vars(send_current_indicators)

NextConn ==
    \/ setup_connection
    \/ handle_subscribe
    \/ handle_subscribe_map
    \/ handle_subscribe_monitor
    \/ handle_unsubscribe
    \/ refresh_loop
    \/ send_current_indicators
    \/ disconnect
    \/ on_close
    \/ on_close_reconnect

\* the consumer with its feed socket closing and its client leaving: the
\* refresh thread, the feed thread inside on_close and the thread running
\* setup_connection all keep running
SpecConn ==
    /\ Init /\ [][NextConn]_vars
    /\ WF_vars(refresh_loop) /\ WF_vars(send_current_indicators)
    /\ WF_vars(on_close_reconnect) /\ WF_vars(setup_connection)

NextRules ==
    \/ adx_rule
    \/ macd_rule
    \/ evaluate_strategies

SpecRules == InitRules /\ [][NextRules]_vars

\* ------------------------------------------------------------ the claims
Stepped(t) == frame'[t] # frame[t]

OpenIdsAfter(tokn) ==
    {i \in DOMAIN positions' :
        positions'[i].token = tokn /\ positions'[i].status = "OPEN"}

\* C1: in every reachable state each token has at most one Position row with
\* status OPEN, also when two open attempts for the token run concurrently.
C1_AtMostOneOpenPerToken ==
    \A tokn \in Tokens : Cardinality(OpenIds(tokn)) <= 1

\* C2: a row is created with status OPEN only, its status changes only from
\* OPEN to CLOSED, and a CLOSED row never becomes OPEN again: a later open
\* for the token appends a distinct row.
C2_StatusLifecycle ==
    [][/\ Len(positions') >= Len(positions)
       /\ \A i \in DOMAIN positions' :
            IF i \in DOMAIN positions
            THEN /\ positions'[i].id = positions[i].id
                 /\ positions'[i].status # positions[i].status
                      => /\ positions[i].status = "OPEN"
                         /\ positions'[i].status = "CLOSED"
            ELSE positions'[i].status = "OPEN"]_vars

C2_ReopenedAsNewRow ==
    \E i, j \in DOMAIN positions :
        /\ i < j
        /\ positions[i].token = positions[j].token
        /\ positions[i].status = "CLOSED"
        /\ positions[j].status = "OPEN"

\* the token's most recently opened row is CLOSED: nothing was opened for it
\* since a Close went through
LastOpenedIsClosed(tokn) ==
    \E i \in DOMAIN positions :
        /\ positions[i].token = tokn
        /\ positions[i].status = "CLOSED"
        /\ \A j \in DOMAIN positions :
              positions[j].token = tokn
                  => positions[j].entry_datetime <= positions[i].entry_datetime

\* C3: a Close of a token that follows a Close of its OPEN position finds no
\* OPEN position and is a no-op: it leaves every row, with the exit price,
\* exit time, mtm and status the first Close wrote, as it is.
C3_SecondCloseIsNoOp ==
    [][\A t \in Threads :
          (/\ frame[t].pc = "close_read"
           /\ Stepped(t)
           /\ LastOpenedIsClosed(frame[t].symbol_token))
              => /\ frame'[t].pc # "close_save"
                 /\ positions' = positions]_vars

\* a thread has read the token's open position (or found none) and has not
\* yet written the row it is about to write
InFlight(t) == frame[t].pc \in {"open", "mtm", "close_save"}

\* C4: at most one mutation of a token's position is in flight at a time: no
\* two workers stand between their read and their write of the same token's
\* position.
C4_OneMutationInFlightPerToken ==
    \A t1, t2 \in Threads :
        (t1 # t2 /\ InFlight(t1) /\ InFlight(t2))
            => frame[t1].symbol_token # frame[t2].symbol_token

\* C5: once a row is CLOSED its mtm is frozen: no later step changes it, a
\* tick's MTM write included.
C5_ClosedMtmFrozen ==
    [][\A i \in DOMAIN positions :
          positions[i].status = "CLOSED" => positions'[i].mtm = positions[i].mtm]_vars

\* stored is the hundredth nearest to scaled / 1000
NearestHundredth(stored, scaled) == 2 * Abs(1000 * stored - scaled) <= 1000

\* C6: a position opened at entry e stores, for LONG, target e * 1.015 and
\* stoploss e * 0.99 and, for SHORT, target e * 0.985 and stoploss e * 1.01,
\* rounded to hundredths; LONG at 100.00 stores 101.50 and 99.00.
C6_TargetAndStoplossAtOpen ==
    [][\A h \in Handlers :
          (frame[h].pc = "open" /\ Stepped(h))
              => LET row == positions'[Len(positions')]
                     e == frame[h].price
                     action == Head(frame[h].signals).action
                 IN  /\ Len(positions') = Len(positions) + 1
                     /\ row.entry_price = e
                     /\ row.status = "OPEN"
                     /\ action = "BUY"
                          => /\ NearestHundredth(row.target, e * 1015)
                             /\ NearestHundredth(row.stoploss, e * 990)
                     /\ action = "SELL"
                          => /\ NearestHundredth(row.target, e * 985)
                             /\ NearestHundredth(row.stoploss, e * 1010)
                     /\ (action = "BUY" /\ e = 10000)
                          => (row.target = 10150 /\ row.stoploss = 9900)]_vars

C6_LongAt100AndRounded ==
    /\ \E i \in DOMAIN positions :
          /\ positions[i].entry_price = 10000
          /\ positions[i].target = 10150
          /\ positions[i].stoploss = 9900
    /\ \E i \in DOMAIN positions :
          /\ positions[i].entry_price = 10010
          /\ positions[i].target = 9860
          /\ positions[i].stoploss = 10110

\* C7: for an OPEN LONG position a tick at or below the stored stoploss closes
\* that position at the tick's price, the row going from OPEN to CLOSED this
\* once, and leaves the token without an OPEN position, so that later ticks
\* close nothing more.
C7_StoplossTickClosesOnce ==
    [][\A k \in Tickers :
          (/\ frame[k].pc = "close_save"
           /\ Stepped(k)
           /\ frame[k].open_position[1].stoploss < frame[k].open_position[1].entry_price
           /\ frame[k].price <= frame[k].open_position[1].stoploss)
              => LET id == frame[k].open_position[1].id
                 IN  /\ positions[id].status = "OPEN"
                     /\ positions'[id].status = "CLOSED"
                     /\ positions'[id].exit_price = <<frame[k].price>>
                     /\ OpenIdsAfter(frame[k].symbol_token) = {}]_vars

\* C8: the Close of a position opened at entry e with quantity q, at exit
\* price x, leaves the row CLOSED with exit price x, the exit time set and mtm
\* (x - e) * q when e < x and (e - x) * q otherwise, whatever mtm it held.
C8_CloseStoresRealizedPnl ==
    [][\A t \in Threads :
          (frame[t].pc = "close_save" /\ Stepped(t))
              => LET id == frame[t].position[1].id
                     e == positions[id].entry_price
                     q == positions[id].quantity
                     x == frame[t].price
                     row == positions'[id]
                 IN  /\ row.status = "CLOSED"
                     /\ row.exit_price = <<x>>
                     /\ row.exit_datetime # <<>>
                     /\ row.entry_price = e /\ row.quantity = q
                     /\ row.mtm = IF e < x THEN (x - e) * q ELSE (e - x) * q]_vars

C8_ClosedBelowEntry ==
    \E i \in DOMAIN positions :
        /\ positions[i].status = "CLOSED"
        /\ positions[i].exit_price # <<>>
        /\ positions[i].exit_datetime # <<>>
        /\ positions[i].exit_price[1] < positions[i].entry_price
        /\ positions[i].mtm
              = (positions[i].entry_price - positions[i].exit_price[1])
                    * positions[i].quantity

\* C9: a tick on a token with an OPEN position stores the signed running PNL
\* (lastPrice - entry) * quantity, negative below the entry price; a tick on
\* a token without an OPEN position changes no row.
C9_SignedRunningPnl ==
    [][\A k \in Tickers :
          /\ (frame[k].pc = "mtm" /\ Stepped(k) /\ positions' # positions)
                => LET p == frame[k].open_position[1]
                   IN  positions'[p.id].mtm
                           = (frame[k].price - p.entry_price) * p.quantity
          /\ (frame[k].pc = "idle" /\ ticks' # ticks /\ sent' # <<>>
                /\ OpenIds(sent'[1].token) = {})
                => positions' = positions]_vars

\* C10: one tick makes at most one Close call, also when its price meets the
\* target condition and the stoploss condition together.
C10_OneCloseCallPerTick ==
    \A k \in Tickers : frame[k].close_calls <= 1

C10_BothConditionsOneCall ==
    \E k \in Tickers :
        /\ frame[k].pc = "close_save"
        /\ frame[k].close_calls = 1
        /\ TargetHit(frame[k].open_position[1], frame[k].price)
        /\ StoplossHit(frame[k].open_position[1], frame[k].price)

\* a step sent the position-opened notification
SentPositionOpened ==
    \E i \in DOMAIN sent' : sent'[i].status = "position_opened"

\* C11: every handling of a BUY or SELL signal sends a position-opened
\* notification: when it creates the OPEN position and also when it finds an
\* OPEN position for the token and creates nothing.
C11_OpenAlwaysNotifies ==
    [][\A h \in Handlers :
          /\ (/\ frame[h].pc = "signal"
              /\ Stepped(h)
              /\ Head(frame[h].signals).action \in {"BUY", "SELL"})
                 => (frame'[h].pc = "open" \/ SentPositionOpened)
          /\ (frame[h].pc = "open" /\ Stepped(h)) => SentPositionOpened]_vars

\* C12: the target and the stoploss of a row never change once the row
\* exists: no MTM write, breach check, close or signal handling touches them.
C12_TargetAndStoplossFixed ==
    [][\A i \in DOMAIN positions :
          /\ i \in DOMAIN positions'
          /\ positions'[i].target = positions[i].target
          /\ positions'[i].stoploss = positions[i].stoploss]_vars

C12_ClosedWithOpeningLevels ==
    \E i \in DOMAIN positions :
        /\ positions[i].status = "CLOSED"
        /\ positions[i].mtm # 0
        /\ positions[i].target = TargetFor("LONG", positions[i].entry_price)
        /\ positions[i].stoploss = StoplossFor("LONG", positions[i].entry_price)

\* every token subscribed under some segment
AllSubscribed == UNION {subscribed_tokens[e] : e \in DOMAIN subscribed_tokens}

NoDuplicates(seq) == \A i, j \in DOMAIN seq : i # j => seq[i] # seq[j]

TokensUnder(subs, exch_type) ==
    IF exch_type \in DOMAIN subs THEN subs[exch_type] ELSE {}

\* the step handled the client command act (a subscribe or an unsubscribe)
Handled(act) ==
    /\ requests' # requests
    /\ received'[1].action = act

\* C13: a subscribe request to the feed carries net-new tokens only: none
\* that is in the subscription set already, none twice, and never an empty
\* list, so that a repeated Subscribe call sends no feed request.
C13_FeedGetsNetNewOnly ==
    [][\A i \in DOMAIN feed' :
          feed'[i].op = "subscribe"
              => /\ feed'[i].tokens # <<>>
                 /\ NoDuplicates(feed'[i].tokens)
                 /\ Range(feed'[i].tokens) \cap AllSubscribed = {}]_vars

\* C14: in every reachable state a token is subscribed under at most one
\* exchange segment.
C14_TokenUnderOneSegment ==
    \A e1, e2 \in DOMAIN subscribed_tokens :
        e1 # e2 => subscribed_tokens[e1] \cap subscribed_tokens[e2] = {}

\* C15: an Unsubscribe that reaches the feed removes from its segment exactly
\* the requested tokens subscribed there, one that finds none of them or that
\* the feed rejects removes nothing, other segments are left as they are, and
\* no step leaves a segment key with an empty set.
C15_UnsubscribeRemovesExactly ==
    [][/\ \A e \in DOMAIN subscribed_tokens' : subscribed_tokens'[e] # {}
       /\ Handled("unsubscribe")
            => LET exch == exchange_type(received'[1].exchange)
                   requested ==
                       {instrument_list[i].token : i \in
                           {j \in DOMAIN instrument_list :
                               /\ instrument_list[j].symbol
                                      \in Range(received'[1].tradingsymbols)
                               /\ instrument_list[j].exch_seg = received'[1].exchange}}
                   present == TokensUnder(subscribed_tokens, exch) \cap requested
               IN  /\ \A e \in DOMAIN subscribed_tokens \cup DOMAIN subscribed_tokens' :
                         TokensUnder(subscribed_tokens', e)
                             = IF e = exch /\ feed' # <<>>
                               THEN TokensUnder(subscribed_tokens, e) \ present
                               ELSE TokensUnder(subscribed_tokens, e)
                   /\ feed' # <<>> => Range(feed'[1].tokens) = present
                   /\ (feed' = <<>> /\ sent' = <<>>) => present = {}]_vars

C15_LastTokenOfSegmentRemoved ==
    /\ received # <<>>
    /\ received[1].action = "unsubscribe"
    /\ feed # <<>>
    /\ exchange_type(received[1].exchange) \notin DOMAIN subscribed_tokens
    /\ AllSubscribed # {}

\* C16: the monitor list only grows at its end and never holds a token
\* twice: every step leaves the old list as a prefix of the new one.
C16_MonitorAppendOnlyNoDuplicates ==
    [][/\ Len(monitor_symbols') >= Len(monitor_symbols)
       /\ SubSeq(monitor_symbols', 1, Len(monitor_symbols)) = monitor_symbols
       /\ NoDuplicates(monitor_symbols')]_vars

C16_KeptAfterUnsubscribeAndRepeat ==
    /\ feed # <<>>
    /\ feed[1].op = "subscribe"
    /\ ~NoDuplicates(feed[1].tokens)
    /\ Len(monitor_symbols) >= 2
    /\ \E i \in DOMAIN monitor_symbols : monitor_symbols[i] \notin AllSubscribed

\* the step delivered a feed message to on_data
TickDelivered == ticks' # ticks

IsPriceUpdate(msg) == DOMAIN msg = {"token", "ltp"}

\* C17: a tick whose last traded price is absent or zero is dropped: its
\* step sends nothing, changes no row and starts no MTM write, breach check
\* or close.
C17_ZeroOrAbsentPriceDropped ==
    [][(TickDelivered /\ received'[1].last_traded_price \in {<<>>, <<0>>})
          => /\ sent' = <<>>
             /\ positions' = positions
             /\ frame' = frame]_vars

C17_DroppedOverOpenPosition ==
    /\ ticks > 0
    /\ received # <<>>
    /\ "last_traded_price" \in DOMAIN received[1]
    /\ received[1].last_traded_price \in {<<>>, <<0>>}
    /\ OpenIds(received[1].token) # {}
    /\ sent = <<>>

\* C18: a tick with a non-zero price sends exactly one price update, in the
\* step that takes the tick and in no later step of its processing; when the
\* token has no OPEN position that step creates, changes and closes nothing,
\* sends nothing else and ends the tick's processing.
C18_OnePriceUpdatePerTick ==
    [][/\ (TickDelivered /\ received'[1].last_traded_price \notin {<<>>, <<0>>})
            => /\ sent' = <<[token |-> received'[1].token,
                             ltp |-> received'[1].last_traded_price[1]]>>
               /\ positions' = positions
               /\ OpenIds(received'[1].token) = {} => frame' = frame
       /\ ~TickDelivered => \A i \in DOMAIN sent' : ~IsPriceUpdate(sent'[i])]_vars

C18_PriceOnlyForTokenWithoutPosition ==
    /\ ticks > 0
    /\ received # <<>>
    /\ "last_traded_price" \in DOMAIN received[1]
    /\ received[1].last_traded_price \notin {<<>>, <<0>>}
    /\ OpenIds(received[1].token) = {}
    /\ \A k \in Tickers : frame[k].pc = "idle"
    /\ Len(sent) = 1
    /\ \E i \in DOMAIN positions : positions[i].status = "OPEN"

\* C19: every token of the monitor list is eventually refreshed by the
\* refresh loop, the tokens beyond the per-cycle cap included.
C19_EveryMonitoredTokenRefreshed ==
    \A symbol_token \in 1..NumInstruments :
        (symbol_token \in Range(monitor_symbols))
            ~> (symbol_token \in Range(refresh.visited))

\* C20: a failed refresh of one token does not end the cycle: the cycle
\* visits every token of its slice in order, whatever each refresh did, and
\* the loop then waits for its next cycle.
C20_FailureDoesNotAbortCycle ==
    /\ refresh.visited \o refresh.remaining = refresh.selected
    /\ refresh.pc = "visit" => refresh.remaining # <<>>
    /\ refresh.pc \in {"none", "wait"} => refresh.remaining = <<>>

C20_FailureInsideFullCycle ==
    /\ refresh.pc = "wait"
    /\ refresh.first_failure = 1
    /\ Len(refresh.visited) = RefreshCap
    /\ refresh.visited = refresh.selected

\* the action of the one signal a rule returned, "none" when it returned none
ActionOf(signals) == IF signals = <<>> THEN "none" ELSE signals[1].action

\* C22: the rules receive the side the token's position was opened on, so
\* that with an OPEN LONG position and +DI below 18, or a MACD line below 0,
\* the evaluation produces an EXIT signal, and with an OPEN SHORT position
\* and -DI below 18, or a MACD line above 0, likewise.
C22_ExitProducedForOpenSide ==
    evaluation.rule = "both" =>
        LET di_present == evaluation.di_plus # <<>> /\ evaluation.di_minus # <<>>
            line_present == evaluation.line # <<>>
            exits == \E i \in DOMAIN evaluation.signals :
                        evaluation.signals[i].action = "EXIT"
        IN  /\ evaluation.side = "LONG"
                  /\ \/ di_present /\ evaluation.di_plus[1] < 18
                     \/ line_present /\ evaluation.line[1] < 0
                => exits
            /\ evaluation.side = "SHORT"
                  /\ \/ di_present /\ evaluation.di_minus[1] < 18
                     \/ line_present /\ evaluation.line[1] > 0
                => exits

C24_MacdRuleTable ==
    evaluation.rule = "macd" =>
        LET a == ActionOf(evaluation.signals)
        IN  /\ Len(evaluation.signals) <= 1
            /\ IF evaluation.line = <<>>
               THEN a = "none"
               ELSE LET l == evaluation.line[1]
                    IN  /\ l = 0 => a = "none"
                        /\ evaluation.side = "NONE" =>
                              a = IF l > 0 THEN "BUY" ELSE IF l < 0 THEN "SELL" ELSE "none"
                        /\ evaluation.side = "LONG" =>
                              a = IF l < 0 THEN "EXIT" ELSE "none"
                        /\ evaluation.side = "SHORT" =>
                              a = IF l > 0 THEN "EXIT" ELSE "none"

C24_ShortAtZeroKept ==
    /\ evaluation.rule = "macd"
    /\ evaluation.side = "SHORT"
    /\ evaluation.line = <<0>>
    /\ evaluation.signals = <<>>

\* the reasons the ADX rule gives
AdxReasons ==
    {"+DI > 20 (strong uptrend)", "-DI > 20 (strong downtrend)",
     "+DI < 18 (uptrend weakening)", "-DI < 18 (downtrend weakening)"}

\* C25: within one evaluation cycle the signals are applied ADX first, then
\* MACD, and at most one of them changes the token's position state: a
\* BUY / SELL that follows finds the position open and an EXIT that follows
\* finds it closed; both are no-ops that report no error.
C25_OneSignalChangesPosition ==
    [][\A h \in Handlers :
        /\ Len(frame'[h].signals) = 2
              => /\ frame'[h].signals[1].reason \in AdxReasons
                 /\ frame'[h].signals[2].reason \notin AdxReasons
        /\ frame[h].pc = "signal" /\ frame'[h].pc = "open"
              => frame[h].open_calls = 0 /\ frame[h].close_calls = 0
        /\ frame[h].pc = "close_read" /\ frame'[h].pc = "close_save"
              => frame[h].open_calls = 0 /\ frame[h].close_calls = 1
        /\ frame[h].pc = "signal" /\ Stepped(h)
              => \A i \in DOMAIN sent' : "error" \notin DOMAIN sent'[i]]_vars

\* C29: an OPEN position stays OPEN after a tick whose price reached neither
\* exit level: no close is issued for a LONG position (stoploss below target)
\* on a price strictly between the stoploss and 0.99 * target, nor for a
\* SHORT position on a price strictly between 1.01 * target and the stoploss.
C29_NoExitBetweenLevels ==
    [][\A k \in Tickers :
        frame[k].pc = "mtm" /\ Stepped(k) =>
            LET p == frame[k].open_position[1]
                ltp == frame[k].price
                between ==
                    IF p.stoploss < p.target
                    THEN p.stoploss < ltp /\ 100 * ltp < 99 * p.target
                    ELSE 101 * p.target < 100 * ltp /\ ltp < p.stoploss
            IN  between =>
                    /\ frame'[k].pc = "idle"
                    /\ positions'[p.id].status = positions[p.id].status
                    /\ \A i \in DOMAIN sent' : sent'[i].status # "auto_exit"]_vars

IsIndicatorsUpdate(msg) ==
    "symboltoken" \in DOMAIN msg /\ msg.status = "live_indicators_update"

\* C21: a periodic refresh that sent its indicator update also runs the
\* strategy rules on the readings it sent and applies their signals: when a
\* rule gives BUY or SELL for a token with no OPEN position, the refresh
\* opens a position for the token.
C21_RefreshAppliesSignals ==
    [][\A i \in DOMAIN sent' :
          IsIndicatorsUpdate(sent'[i]) =>
              LET symbol_token == sent'[i].symboltoken
                  signals == SignalsFor(sent'[i].adx.di_plus, sent'[i].adx.di_minus,
                                        sent'[i].macd.line, "NONE")
              IN  OpenIds(symbol_token) = {} /\ signals # <<>>
                      => OpenIdsAfter(symbol_token) # {}]_vars

\* C26: once the client has disconnected, the refresh loop eventually runs no
\* further cycle and the feed connection is released and stays released: it
\* is neither connected nor about to reconnect.
C26_StopsAfterDisconnect ==
    [](disconnected =>
          <>[](refresh.pc # "visit" /\ sws \notin {"connected", "reconnecting"}))

\* the tokens the instrument list resolves the symbols of the command to
RequestedTokens(command) ==
    {instrument_list[i].token : i \in
        {j \in DOMAIN instrument_list :
            /\ instrument_list[j].symbol \in Range(command.tradingsymbols)
            /\ instrument_list[j].exch_seg = command.exchange}}

\* C27: after the feed connection closed and was established again, a
\* Subscribe for a token that was subscribed when it closed is treated as
\* net-new: a subscribe request naming the token goes to the feed (or the
\* feed's refusal is reported).
C27_ResubscribeAfterReconnect ==
    [][Handled("subscribe") /\ sws = "connected" =>
          \A token \in RequestedTokens(received'[1]) :
              <<exchange_type(received'[1].exchange), token>> \in stale
                  => \/ raised'
                     \/ \E i \in DOMAIN feed' :
                           /\ feed'[i].op = "subscribe"
                           /\ token \in Range(feed'[i].tokens)]_vars

\* C28: the subscription set, the token/symbol map and the monitor list are
\* accessed under mutual exclusion: the refresh thread reads the monitor
\* list (the start of a cycle) or the token/symbol map (an indicator update)
\* only while no Subscribe is between the first and the last of its updates.
C28_ReadsExcludeUpdates ==
    [][LET starts_cycle == refresh.pc = "wait" /\ refresh'.pc = "visit"
           sends_update == \E i \in DOMAIN sent' : IsIndicatorsUpdate(sent'[i])
       IN  (starts_cycle \/ sends_update) => subscribing.pc = "idle"]_vars

\* C30: a subscribe or unsubscribe request that the feed rejects is reported
\* to the client as an error and leaves the subscription set, the
\* token/symbol map and the monitor list as they were.
C30_RejectedRequestChangesNothing ==
    [][raised' =>
          /\ \E i \in DOMAIN sent' : "error" \in DOMAIN sent'[i]
          /\ UNCHANGED <<subscribed_tokens, token_symbol_map, monitor_symbols>>]_vars

C30_RejectedWhileSubscribed ==
    /\ raised
    /\ sws = "connected"
    /\ received[1].action = "unsubscribe"
    /\ RequestedTokens(received[1]) \cap AllSubscribed # {}
    /\ monitor_symbols # <<>>

\* C31: in every reachable state a row has its exit price and exit time set
\* if and only if its status is CLOSED (an OPEN row has both absent), and no
\* step sets one of the two without the same write setting the status to
\* CLOSED.
C31_ExitFieldsIffClosed ==
    [][\A i \in DOMAIN positions' :
          /\ positions'[i].status = "CLOSED"
                => positions'[i].exit_price # <<>> /\ positions'[i].exit_datetime # <<>>
          /\ positions'[i].status = "OPEN"
                => positions'[i].exit_price = <<>> /\ positions'[i].exit_datetime = <<>>
          /\ i \in DOMAIN positions
                /\ \/ positions'[i].exit_price # positions[i].exit_price
                   \/ positions'[i].exit_datetime # positions[i].exit_datetime
                => /\ positions'[i].status = "CLOSED"
                   /\ positions'[i].exit_price # <<>>
                   /\ positions'[i].exit_datetime # <<>>]_vars

C31_ClosedBesideTickedOpenRow ==
    \E i, j \in DOMAIN positions :
        /\ positions[i].status = "CLOSED"
        /\ positions[i].exit_price # <<>>
        /\ positions[j].status = "OPEN"
        /\ positions[j].mtm # 0
        /\ positions[j].exit_price = <<>>

C33_SubscribedTokensHaveSymbol ==
    subscribing.pc = "idle" => AllSubscribed \subseteq DOMAIN token_symbol_map

====
